---- MODULE Spec2Model ----
(***************************************************************************)
(* Customer-churn analytics core: the ChurnPredictor life cycle            *)
(* (src/src/model.py), the DataProcessor (src/src/data_processor.py), the  *)
(* metric calculators and the recommendation engine (src/src/analytics)    *)
(* and the segmentation run of the segmentation page.                      *)
(*                                                                         *)
(* Numbers are exact: a float that the code computes is kept as a rational *)
(* (num / den), a satisfaction score as tenths (3.5 is 35), an amount of   *)
(* money as a whole number of currency units.                              *)
(***************************************************************************)
EXTENDS Integers, Sequences, FiniteSets, TLC

VARIABLES
    df,             \* the shared pandas DataFrame: base rows and derived columns
    dp,             \* DataProcessor: label_encoders and scaler
    cp,             \* ChurnPredictor: model (the classifier) and feature_importance
    result,         \* outcome of the last call: op, args, status, raised, value
    df0,            \* history: the dataset as loaded
    trainCalled,    \* history: some train call was made
    lastImportance, \* history: feature_importances_ of the last train that returned
    recsSeen        \* history: one earlier result of a call on the present df

vars == <<df, dp, cp, result, df0, trainCalled, lastImportance, recsSeen>>

-----------------------------------------------------------------------------
(* Bounds of the model *)

MaxRows == 2        \* rows of a dataset
MaxCols == 2        \* feature columns of a training matrix X
MaxImp == 1         \* largest (integer-scaled) feature importance
MaxClass == 5       \* rows of class 0 in a training target y
MaxMinority == 2    \* rows of class 1 in a training target y
MaxSplitClass == 8       \* rows of class 0 in a target y whose split is examined
MaxSplitMinority == 5    \* rows of class 1 in a target y whose split is examined
MaxSegment == 1     \* largest segment id asked of the recommendation engine
MaxInferenceClass == 5   \* records of each class on the prediction page

-----------------------------------------------------------------------------
(* Python values *)

None == << >>                       \* None, or a column that does not exist
Some(v) == <<v>>
IsNone(o) == Len(o) = 0
Get(o) == o[1]

NaN == "nan"                        \* a missing cell of a column of strings
NonStr == "<number>"                \* a numeric cell in a column of strings

Range(s) == {s[i] : i \in DOMAIN s}
SetMax(S) == CHOOSE m \in S : \A x \in S : x <= m
SetMin(S) == CHOOSE m \in S : \A x \in S : m <= x
Max2(a, b) == IF a >= b THEN a ELSE b

\* The outcome of a call.  raised names the step that raised, "none" if no
\* step did.
Return(op, args, v) ==
    [op |-> op, args |-> args, status |-> "ok", raised |-> "none", value |-> Some(v)]

\* raise ValueError(...) in the body of a method that has no handler
Raise(op, args, step) ==
    [op |-> op, args |-> args, status |-> "error", raised |-> step, value |-> None]

Swallow(op, args, step) ==
    [op |-> op, args |-> args, status |-> "ok", raised |-> step, value |-> None]

\* except Exception as e: logger.error(...); raise
Reraise(op, args, step) == Raise(op, args, step)

NoCall == [op |-> "none", args |-> None, status |-> "none", raised |-> "none", value |-> None]

-----------------------------------------------------------------------------
(* ChurnPredictor *)

\* ChurnPredictor.__init__: an unfitted classifier, no feature importance
ChurnPredictor == [model |-> None, feature_importance |-> None]

\* a training partition of all the rows
TrainSizeAll(n) == n

\* sklearn's train_test_split(test_size=0.2, stratify=y): the held-out size is
\* ceil(0.2 n), the training size the rest
TestSize(n) == (n + 4) \div 5
TrainSize(n) == n - TestSize(n)
NClasses(n0, n1) == (IF n0 > 0 THEN 1 ELSE 0) + (IF n1 > 0 THEN 1 ELSE 0)

\* ... and it raises ValueError when a partition would be empty, when a class
\* has a single member or when a partition is smaller than the class count
SplitRaises(n0, n1) ==
    LET n == n0 + n1 IN
    \/ n = 0
    \/ TrainSize(n) = 0
    \/ n0 = 1 \/ n1 = 1
    \/ TrainSize(n) < NClasses(n0, n1)
    \/ TestSize(n) < NClasses(n0, n1)

\* the rows of each class that the stratified split puts in the training
\* partition: the class count times the training share rounded down, a row
\* that is left over going to the class with the larger remainder (either
\* one when the remainders are equal)
TrainClassCounts(n0, n1) ==
    LET n == n0 + n1
        k == TrainSize(n)
        f0 == (n0 * k) \div n
        f1 == (n1 * k) \div n
        m0 == (n0 * k) % n
        m1 == (n1 * k) % n
    IN IF k = f0 + f1 THEN {<<f0, f1>>}
       ELSE (IF m0 >= m1 THEN {<<f0 + 1, f1>>} ELSE {})
            \cup (IF m1 >= m0 THEN {<<f0, f1 + 1>>} ELSE {})

\* confusion_matrix(y_test, y_pred) for a held-out partition with t0 rows of
\* class 0 and t1 of class 1, after a fit on c0 rows of class 0 and c1 of
\* class 1: the classifier predicts only classes it was fitted on, and the
\* matrix has a cell for every pair of labels that occur in y_test or y_pred
ConfusionMatrices(t0, t1, c0, c1) ==
    {LET count == [p \in {0, 1} \X {0, 1} |->
                      CASE p = <<0, 0>> -> a
                        [] p = <<0, 1>> -> t0 - a
                        [] p = <<1, 0>> -> t1 - b
                        [] OTHER -> b]
         labels == {c \in {0, 1} : count[<<c, 0>>] + count[<<c, 1>>]
                                       + count[<<0, c>>] + count[<<1, c>>] > 0}
     IN [p \in labels \X labels |-> count[p]] :
        a \in (IF c1 = 0 THEN {t0} ELSE IF c0 = 0 THEN {0} ELSE 0..t0),
        b \in (IF c0 = 0 THEN {t1} ELSE IF c1 = 0 THEN {0} ELSE 0..t1)}

\* the confusion matrices that train may compute for a y of n0 and n1 rows
TrainConfusionMatrices(n0, n1) ==
    UNION {ConfusionMatrices(n0 - c[1], n1 - c[2], c[1], c[2]) : c \in TrainClassCounts(n0, n1)}

\* those of them in which every held-out row is predicted as its class
CorrectMatrices(n0, n1) ==
    {cm \in TrainConfusionMatrices(n0, n1) :
        \A p \in DOMAIN cm : p[1] # p[2] => cm[p] = 0}

\* cross_val_score(cv=5) uses StratifiedKFold(5), which raises ValueError when
\* there are fewer than 5 samples or every class has fewer than 5 members
CvRaises(n0, n1) ==
    \/ n0 + n1 < 5
    \/ (n0 < 5 /\ n1 < 5)

\* the rows of DataFrame({'feature', 'importance'}).sort_values('importance',
\* ascending=False): every order of the features that is descending in
\* importance (the default sort is not stable: equal importances come in an
\* order that depends on the numpy build)
Rankings(nc, imp) ==
    {r \in [1..nc -> 1..nc] :
        /\ \A i, j \in 1..nc : i # j => r[i] # r[j]
        /\ \A i \in 1..(nc - 1) : imp[r[i]] >= imp[r[i + 1]]}

FeatureFrame(imp, r) == [i \in DOMAIN r |-> [feature |-> r[i], importance |-> imp[r[i]]]]

\* the classifier after fit, as far as later calls read it: its n_features_in_
Fitted(nc) == [n_features |-> nc]

\* train, lines 27-51, once the split has succeeded and fit has not raised:
\* the classifier is refitted, then cross_val_score runs, then the feature
\* importance is stored
TrainFitted(p, nc, imp, n0, n1, r) ==
    IF CvRaises(n0, n1)
    THEN [p EXCEPT !.model = Some(Fitted(nc))]
    ELSE [model |-> Some(Fitted(nc)),
          feature_importance |-> Some(FeatureFrame(imp, r))]

\* what train returns or raises: the split raises before fit, fit raises on
\* an X it rejects, cross_val_score raises after fit. Of the metrics the
\* value keeps the sizes: n_rows of the (X, y) that cross_val_score is given,
\* n_train of the partition that fit is given, n_test of the partition that
\* is predicted, and the confusion matrix
TrainResult(nc, n0, n1, xBad, cm) ==
    LET args == [n_features |-> nc] IN
    IF SplitRaises(n0, n1) THEN Reraise("train", args, "train_test_split")
    ELSE IF xBad THEN Reraise("train", args, "fit")
    ELSE IF CvRaises(n0, n1) THEN Reraise("train", args, "cross_val_score")
    ELSE Return("train", args,
                [n_rows |-> n0 + n1,
                 n_train |-> TrainSize(n0 + n1), n_test |-> TestSize(n0 + n1),
                 confusion_matrix |-> cm])

\* train(X, y): X has the columns 1..nc and y has n0 rows of class 0 and n1 of
\* class 1; xBad is an X that fit rejects; imp is the feature_importances_
\* that fit computes and r the order sort_values gives them.
train(nc, imp, n0, n1, xBad, r, cm) ==
    /\ result' = TrainResult(nc, n0, n1, xBad, cm)
    /\ cp' = IF SplitRaises(n0, n1) \/ xBad THEN cp
             ELSE TrainFitted(cp, nc, imp, n0, n1, r)
    /\ trainCalled' = TRUE
    /\ lastImportance' = IF result'.status = "ok" THEN Some(imp) ELSE lastImportance
    /\ UNCHANGED <<df, dp, df0, recsSeen>>

\* train on an X of at most cols columns and a y of at most class0 rows of
\* class 0 and class1 of class 1, the held-out predictions being all correct
\* or, with anyOutcome, any: what fit computes is drawn only when fit runs, the
\* order of the stored frame only when it is stored
TrainOn(cols, class0, class1, anyOutcome) ==
    \E nc \in 1..cols, n0 \in 0..class0, n1 \in 0..class1 :
        LET imp0 == [i \in 1..nc |-> 0] IN
        IF SplitRaises(n0, n1)
        THEN train(nc, imp0, n0, n1, FALSE, [i \in 1..nc |-> i], << >>)
        ELSE \/ train(nc, imp0, n0, n1, TRUE, [i \in 1..nc |-> i], << >>)
             \/ IF CvRaises(n0, n1)
                THEN train(nc, imp0, n0, n1, FALSE, [i \in 1..nc |-> i], << >>)
                ELSE \E imp \in [1..nc -> 0..MaxImp],
                        cm \in (IF anyOutcome THEN TrainConfusionMatrices(n0, n1)
                                ELSE CorrectMatrices(n0, n1)) :
                        \E r \in Rankings(nc, imp) : train(nc, imp, n0, n1, FALSE, r, cm)

\* train on data that the fitted classifier predicts without error
Train == TrainOn(MaxCols, MaxClass, MaxMinority, FALSE)

\* train on one feature column and on larger targets, with every outcome of
\* the held-out predictions
TrainSplit == TrainOn(1, MaxSplitClass, MaxSplitMinority, TRUE)

PredictUnchecked(p, nc) == Return("predict", [n_features |-> nc], [n_rows |-> 1])

\* predict(X): predict_proba raises NotFittedError on an unfitted classifier
\* and ValueError on an X whose column count is not that of the fit
PredictResult(p, nc) ==
    LET args == [n_features |-> nc] IN
    IF IsNone(p.model) THEN Reraise("predict", args, "predict_proba")
    ELSE IF Get(p.model).n_features # nc THEN Reraise("predict", args, "predict_proba")
    ELSE Return("predict", args, [n_rows |-> 1])

predict(nc) ==
    /\ result' = PredictResult(cp, nc)
    /\ UNCHANGED <<df, dp, cp, df0, trainCalled, lastImportance, recsSeen>>

Predict == \E nc \in 1..MaxCols : predict(nc)

\* DataFrame.head(n)
head(s, n) == SubSeq(s, 1, IF n < Len(s) THEN n ELSE Len(s))

TopFeaturesResult(p, n) ==
    LET args == [n |-> n] IN
    IF IsNone(p.feature_importance) THEN Raise("get_top_features", args, "not trained")
    ELSE Return("get_top_features", args, head(Get(p.feature_importance), n))

get_top_features(n) ==
    /\ result' = TopFeaturesResult(cp, n)
    /\ UNCHANGED <<df, dp, cp, df0, trainCalled, lastImportance, recsSeen>>

GetTopFeatures == \E n \in 1..(MaxCols + 1) : get_top_features(n)

-----------------------------------------------------------------------------
(* The dataset *)

\* the columns of the loaded dataset, in order (utils/seeder.py names them,
\* DataLoader.transform_telco_data appends LastUpdate)
BaseColumns ==
    <<"CustomerID", "Gender", "Age", "Tenure", "ContractType", "MonthlyCharges",
      "TotalCharges", "InternetService", "PhoneService", "StreamingTV",
      "StreamingMovies", "PaymentMethod", "SatisfactionScore", "Churn", "LastUpdate">>

\* the columns of dtype object (strings)
ObjectColumns ==
    {"Gender", "ContractType", "InternetService", "PhoneService", "StreamingTV",
     "StreamingMovies", "PaymentMethod"}

\* the derived columns the core adds
DerivedColumns == {"CLV", "ARPU", "ServiceUsageScore", "ValueSegment", "Segment"}

\* dtype of a column: encoded string columns and whole numbers are int64,
\* pd.qcut gives a categorical, KMeans labels are int32
Dtype(c) ==
    CASE c \in ObjectColumns -> "object"
      [] c \in {"CustomerID", "Age", "Tenure", "Churn", "ServiceUsageScore"} -> "int64"
      [] c \in {"MonthlyCharges", "TotalCharges", "SatisfactionScore", "CLV", "ARPU"} -> "float64"
      [] c = "ValueSegment" -> "category"
      [] c = "Segment" -> "int32"
      [] OTHER -> "datetime64"

DefaultRow ==
    [CustomerID |-> 0, Gender |-> "Male", Age |-> 40, Tenure |-> 1,
     ContractType |-> "One Year", MonthlyCharges |-> 70, TotalCharges |-> 70,
     InternetService |-> "DSL", PhoneService |-> "Yes", StreamingTV |-> "Yes",
     StreamingMovies |-> "Yes", PaymentMethod |-> "Mailed check",
     SatisfactionScore |-> 35, Churn |-> 0, LastUpdate |-> 0]

\* a dataset of the rows rs (a sequence), CustomerID being the row number,
\* without the base columns in absent
Dataset(rs, absent) ==
    [rows |-> [i \in DOMAIN rs |-> [rs[i] EXCEPT !.CustomerID = i]],
     columns |-> SelectSeq(BaseColumns, LAMBDA c : c \notin absent),
     derived |-> [c \in DerivedColumns |-> None]]

\* the datasets of 1..MaxRows rows drawn from D
Datasets(D, absent) ==
    UNION {{Dataset(rs, absent) : rs \in [1..n -> D]} : n \in 1..MaxRows}

EmptyMap == [c \in {} |-> None]

\* the recommendation result remembered: forgotten when the dataset changes
SeenAfter(d, d2) == IF d2 = d THEN recsSeen ELSE None

\* one earlier result on the present dataset is kept for comparison: the one
\* kept so far, or the one just returned
Remember(seen, res) == {seen, Some(res)}

NRows(d) == Len(d.rows)
HasColumn(d, c) == c \in Range(d.columns)
HasColumns(d, cs) == \A c \in cs : HasColumn(d, c)

\* df[c] of an existing column, as a sequence of cells
Column(d, c) ==
    IF c \in DerivedColumns THEN Get(d.derived[c])
    ELSE [i \in 1..NRows(d) |-> d.rows[i][c]]

\* df[c] = values: a new column is appended, an existing one overwritten
AssignColumn(d, c, values) ==
    IF c \in DerivedColumns
    THEN [d EXCEPT !.columns = IF HasColumn(d, c) THEN @ ELSE Append(@, c),
                   !.derived[c] = Some(values)]
    ELSE [d EXCEPT !.columns = IF HasColumn(d, c) THEN @ ELSE Append(@, c),
                   !.rows = [i \in 1..NRows(d) |-> [@[i] EXCEPT ![c] = values[i]]]]

\* the base part of a dataset: its rows and which base columns it has
BaseView(d) ==
    [rows |-> d.rows, columns |-> SelectSeq(d.columns, LAMBDA c : c \notin DerivedColumns)]

-----------------------------------------------------------------------------
(* Exact arithmetic on the floats of the calculators: a number is num / den *)
(* with den > 0, or nan                                                     *)

RECURSIVE GCD(_, _)
GCD(a, b) == IF b = 0 THEN a ELSE GCD(b, a % b)

\* n / d in lowest terms
Num(n, d) ==
    LET g == GCD(IF n < 0 THEN -n ELSE n, d)
    IN [nan |-> FALSE, num |-> n \div g, den |-> d \div g]
NanNum == [nan |-> TRUE, num |-> 0, den |-> 1]
Whole(n) == Num(n, 1)

\* a / b of two whole numbers: 0 / 0 is nan in pandas
Div(a, b) == IF b = 0 THEN NanNum ELSE Num(a, b)
Add(x, y) == IF x.nan \/ y.nan THEN NanNum ELSE Num(x.num * y.den + y.num * x.den, x.den * y.den)
Sub(x, y) == IF x.nan \/ y.nan THEN NanNum ELSE Num(x.num * y.den - y.num * x.den, x.den * y.den)
\* x * (a / b)
Mul(x, a, b) == IF x.nan THEN NanNum ELSE Num(x.num * a, x.den * b)
Le(x, y) == x.num * y.den <= y.num * x.den
Lt(x, y) == x.num * y.den < y.num * x.den
Eq(x, y) == x.nan = y.nan /\ (~x.nan => x.num * y.den = y.num * x.den)

-----------------------------------------------------------------------------
(* DataProcessor *)

\* DataProcessor.__init__: no label encoder, an unfitted scaler
DataProcessor == [label_encoders |-> EmptyMap, scaler |-> None]

\* model_df after dropping the non-predictive columns
ModelColumns(d) == SelectSeq(d.columns, LAMBDA c : c \notin {"CustomerID", "LastUpdate"})

\* select_dtypes(include=['object']).columns
CategoricalCols(d) == SelectSeq(ModelColumns(d), LAMBDA c : Dtype(c) = "object")

\* LabelEncoder.fit_transform raises TypeError on a column that mixes strings
\* and numbers
Encodable(d, c) == NonStr \notin Range(Column(d, c))

\* position in CategoricalCols of the first column that cannot be encoded,
\* one past the end if there is none
FirstBad(d) ==
    LET cc == CategoricalCols(d)
        bad == {i \in DOMAIN cc : ~Encodable(d, cc[i])}
    IN IF bad = {} THEN Len(cc) + 1 ELSE CHOOSE i \in bad : \A j \in bad : i <= j

LabelEncoder == [classes |-> None]                           \* LabelEncoder()
FittedEncoder(d, c) == [classes |-> Some(Range(Column(d, c)))]

\* label_encoders after the loop of lines 24-27 has run to its end or to the
\* column whose fit_transform raises: the encoder of a column is replaced
\* before it is fitted
EncodersAfterLoop(le, d) ==
    LET cc == CategoricalCols(d)
        k == FirstBad(d)
        touched == {cc[i] : i \in {j \in DOMAIN cc : j <= k}}
    IN [c \in (DOMAIN le) \cup touched |->
          IF c \notin touched THEN le[c]
          ELSE IF Encodable(d, c) THEN FittedEncoder(d, c)
          ELSE LabelEncoder]

\* X.columns with the target left in
FeatureColumnsWithTarget(d, target) == ModelColumns(d)

\* X.columns: model_df without the target
FeatureColumns(d, target) == SelectSeq(ModelColumns(d), LAMBDA c : c # target)

\* X.select_dtypes(include=['float64', 'int64']).columns, the string columns
\* being int64 once encoded
NumericalCols(d, target) ==
    SelectSeq(FeatureColumns(d, target),
              LAMBDA c : Dtype(c) \in {"object", "int64", "float64"})

\* the strings of the datasets in the order in which Python sorts them
StringsInOrder ==
    <<"Bank Transfer", "Bank transfer (automatic)", "Credit Card", "Credit card (automatic)",
      "DSL", "Electronic Check", "Electronic check", "Female", "Fiber Optic", "Mailed Check",
      "Mailed check", "Male", "Month-to-Month", "Month-to-month", "No", "One Year",
      "Two Year", "Yes">>

StrRank(v) == CHOOSE i \in DOMAIN StringsInOrder : StringsInOrder[i] = v

\* LabelEncoder.transform: the position of a value among the sorted classes
EncoderCode(enc, v) == Cardinality({w \in Get(enc.classes) : StrRank(w) < StrRank(v)})

\* model_df[c] after the loop of lines 24-27, as exact numbers: a column of
\* strings holds the codes of its encoder
EncodedColumn(le, d, c) ==
    [i \in 1..NRows(d) |->
        IF Dtype(c) = "object" THEN Whole(EncoderCode(le[c], Column(d, c)[i]))
        ELSE IF c = "ARPU" THEN Num(Column(d, c)[i].num, Column(d, c)[i].den)
        ELSE Whole(Column(d, c)[i])]

\* X[numerical_cols] before scaling
EncodedFrame(le, d, target) ==
    [c \in Range(NumericalCols(d, target)) |-> EncodedColumn(le, d, c)]

RECURSIVE SumNum(_, _)
SumNum(col, n) == IF n = 0 THEN Whole(0) ELSE Add(SumNum(col, n - 1), col[n])

ColumnMean(col) == LET t == SumNum(col, Len(col)) IN Num(t.num, t.den * Len(col))

\* the variance StandardScaler computes: the mean of the squared deviations
ColumnVar(col) ==
    LET m == ColumnMean(col)
        sq == [i \in DOMAIN col |->
                 LET dv == Sub(col[i], m) IN Num(dv.num * dv.num, dv.den * dv.den)]
        t == SumNum(sq, Len(col))
    IN Num(t.num, t.den * Len(col))

\* what a fit of the scaler stores: the features, their means and variances
FitStatistics(cols, frame) ==
    [features |-> cols,
     mean |-> [c \in Range(cols) |-> ColumnMean(frame[c])],
     var |-> [c \in Range(cols) |-> ColumnVar(frame[c])]]

\* a scaler that keeps its first fit
ScalerFitOnce(sc, cols, frame) == IF IsNone(sc) THEN Some(FitStatistics(cols, frame)) ELSE sc

\* StandardScaler.fit (the first half of fit_transform): what was fitted
\* before is discarded
ScalerFit(sc, cols, frame) == Some(FitStatistics(cols, frame))

\* StandardScaler.transform raises ValueError on features other than those
\* of the fit
ScalerTransformRaises(sc, cols) == Get(sc).features # cols

\* StandardScaler.transform of a cell x of column c: (x - mean) / sqrt(var),
\* kept as the deviation and the variance (a variance of 0 scales by 1)
ScalerTransform(sc, c, x) == [dev |-> Sub(x, Get(sc).mean[c]), var |-> Get(sc).var[c]]

\* self.scaler after line 35
ScalerAfter(p, d, target) ==
    ScalerFit(p.scaler, NumericalCols(d, target),
              EncodedFrame(EncodersAfterLoop(p.label_encoders, d), d, target))

PrepareRaises(p, d, target) ==
    IF FirstBad(d) <= Len(CategoricalCols(d)) THEN "fit_transform"
    ELSE IF target \notin Range(ModelColumns(d)) THEN "drop target"
    ELSE IF ScalerTransformRaises(ScalerAfter(p, d, target), NumericalCols(d, target))
    THEN "scaler"
    ELSE "none"

\* X as returned: the numerical columns scaled, the others as they are
FeatureMatrix(p, d, target) ==
    LET le == EncodersAfterLoop(p.label_encoders, d)
        sc == ScalerAfter(p, d, target)
    IN [i \in 1..NRows(d) |->
          [c \in Range(FeatureColumns(d, target)) |->
              IF c \in Range(NumericalCols(d, target))
              THEN ScalerTransform(sc, c, EncodedColumn(le, d, c)[i])
              ELSE Column(d, c)[i]]]

\* y = model_df[target_col], taken before the scaling
TargetVector(p, d, target) ==
    IF Dtype(target) = "object"
    THEN [i \in 1..NRows(d) |->
             EncoderCode(EncodersAfterLoop(p.label_encoders, d)[target], Column(d, target)[i])]
    ELSE Column(d, target)

PrepareResult(p, d, target) ==
    LET args == [target_col |-> target] IN
    IF PrepareRaises(p, d, target) # "none"
    THEN Reraise("prepare_model_data", args, PrepareRaises(p, d, target))
    ELSE Return("prepare_model_data", args,
                [columns |-> FeatureColumns(d, target), n_rows |-> NRows(d),
                 target |-> target,
                 X |-> FeatureMatrix(p, d, target), y |-> TargetVector(p, d, target)])

\* the non-predictive columns dropped from self.df itself
SourceDroppedInPlace(d) == [d EXCEPT !.columns = ModelColumns(d)]

\* self.df after model_df = self.df.copy(): the drop, the encoding and the
\* scaling write to the copy and to frames made from it
SourceAfterPrepare(d) == d

\* prepare_model_data(target_col): works on a copy of self.df
prepare_model_data(target) ==
    /\ result' = PrepareResult(dp, df, target)
    /\ df' = SourceAfterPrepare(df)
    /\ dp' = [label_encoders |-> EncodersAfterLoop(dp.label_encoders, df),
              scaler |-> IF PrepareRaises(dp, df, target) \in {"none", "scaler"}
                         THEN ScalerAfter(dp, df, target)
                         ELSE dp.scaler]
    /\ recsSeen' \in Remember(recsSeen, result')
    /\ UNCHANGED <<cp, df0, trainCalled, lastImportance>>

TargetCols == {"Churn", "Churned"}

PrepareModelData == \E t \in TargetCols : prepare_model_data(t)

\* self.df['CLV'] = self.df['MonthlyCharges'] * self.df['Tenure']
CLVColumn(d) == [i \in 1..NRows(d) |-> d.rows[i].MonthlyCharges * d.rows[i].Tenure]

\* self.df['TotalCharges'] / self.df['Tenure'].clip(1)
ARPUColumn(d) ==
    [i \in 1..NRows(d) |-> [num |-> d.rows[i].TotalCharges, den |-> Max2(d.rows[i].Tenure, 1)]]

ServiceColumns == <<"PhoneService", "InternetService", "StreamingTV", "StreamingMovies">>

\* sum(x != 'No') over the service columns of a row
ServiceCount(r) == Cardinality({i \in DOMAIN ServiceColumns : r[ServiceColumns[i]] # "No"})

ServiceUsageColumn(d) == [i \in 1..NRows(d) |-> ServiceCount(d.rows[i])]

\* the step of calculate_customer_metrics that raises KeyError, if any
MetricsRaises(d) ==
    IF ~HasColumns(d, {"MonthlyCharges", "Tenure"}) THEN "CLV"
    ELSE IF ~HasColumn(d, "TotalCharges") THEN "ARPU"
    ELSE IF ~HasColumns(d, Range(ServiceColumns)) THEN "ServiceUsageScore"
    ELSE "none"

\* self.df after calculate_customer_metrics: the columns assigned before the
\* step that raises stay
MetricsFrame(d) ==
    LET s == MetricsRaises(d)
        d1 == IF s = "CLV" THEN d ELSE AssignColumn(d, "CLV", CLVColumn(d))
        d2 == IF s \in {"CLV", "ARPU"} THEN d1 ELSE AssignColumn(d1, "ARPU", ARPUColumn(d))
    IN IF s = "none" THEN AssignColumn(d2, "ServiceUsageScore", ServiceUsageColumn(d)) ELSE d2

MetricsResult(d) ==
    IF MetricsRaises(d) # "none"
    THEN Reraise("calculate_customer_metrics", None, MetricsRaises(d))
    ELSE Return("calculate_customer_metrics", None, MetricsFrame(d).columns)

calculate_customer_metrics ==
    /\ result' = MetricsResult(df)
    /\ df' = MetricsFrame(df)
    /\ recsSeen' = SeenAfter(df, df')
    /\ UNCHANGED <<dp, cp, df0, trainCalled, lastImportance>>

-----------------------------------------------------------------------------
(* The prediction core: one DataProcessor and one ChurnPredictor *)

CoreRows == {[DefaultRow EXCEPT !.ContractType = ct] : ct \in {"Two Year", NonStr}}

CoreAbsent == {{}, {"StreamingTV"}}

InitWith(ds) ==
    /\ df \in ds
    /\ df0 = df
    /\ dp = DataProcessor
    /\ cp = ChurnPredictor
    /\ result = NoCall
    /\ trainCalled = FALSE
    /\ lastImportance = None
    /\ recsSeen = None

InitCore == \E a \in CoreAbsent : InitWith(Datasets(CoreRows, a))

NextCore ==
    \/ Train
    \/ Predict
    \/ GetTopFeatures
    \/ PrepareModelData
    \/ calculate_customer_metrics

SpecCore == InitCore /\ [][NextCore]_vars

InitPredictor == InitWith({Dataset(<<DefaultRow>>, {})})

NextPredictor == Train \/ Predict \/ GetTopFeatures

SpecPredictor == InitPredictor /\ [][NextPredictor]_vars

\* the split and the evaluation of train, on their own
NextSplit == TrainSplit \/ Predict \/ GetTopFeatures

SpecSplit == InitPredictor /\ [][NextSplit]_vars

\* a DataProcessor alone, on datasets whose string columns may hold numbers
ProcessorRows ==
    {[DefaultRow EXCEPT !.Gender = g, !.ContractType = ct] :
        g \in {"Male", NonStr}, ct \in {"Month-to-Month", "Two Year", NonStr}}

ProcessorAbsent == {{}, {"TotalCharges"}, {"StreamingTV"}, {"Churn"}}

InitProcessor == \E a \in ProcessorAbsent : InitWith(Datasets(ProcessorRows, a))

NextProcessor == PrepareModelData \/ calculate_customer_metrics

SpecProcessor == InitProcessor /\ [][NextProcessor]_vars

-----------------------------------------------------------------------------
(* Sums and lookups of the calculators *)

\* the sum of the cells of a column at the rows in members, among the first n
RECURSIVE SumOver(_, _, _)
SumOver(col, members, n) ==
    IF n = 0 THEN 0
    ELSE SumOver(col, members, n - 1) + (IF n \in members THEN col[n] ELSE 0)

\* a lookup with the fallback 0 for a key that is not in the dict
MapLookupZero(table, key) == IF key \in DOMAIN table THEN Whole(table[key]) ELSE Whole(0)

\* Series.map(dict): a key that is not in the dict maps to nan
MapLookup(table, key) == IF key \in DOMAIN table THEN Whole(table[key]) ELSE NanNum

\* self.df['Tenure'].max()
MaxTenureOf(rows) == SetMax({rows[i].Tenure : i \in DOMAIN rows})

-----------------------------------------------------------------------------
(* RiskScorer *)

ContractRisk == [c \in {"Month-to-Month", "One Year", "Two Year"} |->
                    CASE c = "Month-to-Month" -> 100 [] c = "One Year" -> 50 [] OTHER -> 25]

PaymentRisk == [m \in {"Electronic check", "Mailed check", "Bank transfer (automatic)",
                       "Credit card (automatic)"} |->
                    CASE m = "Electronic check" -> 80 [] m = "Mailed check" -> 60 [] OTHER -> 40]

\* 100 - (Tenure / Tenure.max() * 100)
tenure_risk(rows, i) == Sub(Whole(100), Mul(Div(rows[i].Tenure, MaxTenureOf(rows)), 100, 1))

\* 100 - (SatisfactionScore / 5 * 100), the score being kept in tenths
satisfaction_risk(rows, i) == Sub(Whole(100), Mul(Div(rows[i].SatisfactionScore, 10), 100, 5))

contract_risk(rows, i) == MapLookup(ContractRisk, rows[i].ContractType)
payment_risk(rows, i) == MapLookup(PaymentRisk, rows[i].PaymentMethod)

RiskScoreUnweighted(rows, i) ==
    Add(Add(Add(tenure_risk(rows, i), satisfaction_risk(rows, i)), contract_risk(rows, i)),
        payment_risk(rows, i))

\* sum(risk_factors[factor] * weights[factor] ...) with the weights 0.3, 0.3,
\* 0.2 and 0.2
risk_score(rows, i) ==
    Add(Add(Add(Mul(tenure_risk(rows, i), 3, 10), Mul(satisfaction_risk(rows, i), 3, 10)),
            Mul(contract_risk(rows, i), 2, 10)),
        Mul(payment_risk(rows, i), 2, 10))

RiskScores(d) == [i \in 1..NRows(d) |-> risk_score(d.rows, i)]

RiskCategoryLeftClosed(x) ==
    IF x.nan THEN NaN
    ELSE IF Le(Whole(0), x) /\ Lt(x, Whole(30)) THEN "Low Risk"
    ELSE IF Le(Whole(30), x) /\ Lt(x, Whole(60)) THEN "Medium Risk"
    ELSE IF Le(Whole(60), x) /\ Le(x, Whole(100)) THEN "High Risk"
    ELSE NaN

\* the bins of pd.cut with the labels of the two upper bins exchanged
RiskCategoryLabelsSwapped(x) ==
    IF x.nan THEN NaN
    ELSE IF Lt(Whole(0), x) /\ Le(x, Whole(30)) THEN "Low Risk"
    ELSE IF Lt(Whole(30), x) /\ Le(x, Whole(60)) THEN "High Risk"
    ELSE IF Lt(Whole(60), x) /\ Le(x, Whole(100)) THEN "Medium Risk"
    ELSE NaN

\* pd.cut(risk_scores, bins=[0, 30, 60, 100], labels=[...]): intervals open on
\* the left and closed on the right; a value in none of them, and nan, get no
\* category
RiskCategory(x) ==
    IF x.nan THEN NaN
    ELSE IF Lt(Whole(0), x) /\ Le(x, Whole(30)) THEN "Low Risk"
    ELSE IF Lt(Whole(30), x) /\ Le(x, Whole(60)) THEN "Medium Risk"
    ELSE IF Lt(Whole(60), x) /\ Le(x, Whole(100)) THEN "High Risk"
    ELSE NaN

RiskCategories(d) == [i \in 1..NRows(d) |-> RiskCategory(RiskScores(d)[i])]

calculate_risk_score ==
    /\ result' = Return("calculate_risk_score", None, RiskScores(df))
    /\ UNCHANGED <<df, dp, cp, df0, trainCalled, lastImportance, recsSeen>>

\* get_risk_categories computes the scores itself and returns the categories;
\* the result keeps the scores beside them
get_risk_categories ==
    /\ result' = Return("get_risk_categories", None,
                        [scores |-> RiskScores(df), categories |-> RiskCategories(df)])
    /\ UNCHANGED <<df, dp, cp, df0, trainCalled, lastImportance, recsSeen>>

-----------------------------------------------------------------------------
(* EngagementAnalyzer *)

ContractScore == [c \in {"Month-to-Month", "One Year", "Two Year"} |->
                    CASE c = "Month-to-Month" -> 33 [] c = "One Year" -> 66 [] OTHER -> 100]

\* sum(x != 'No') / len(service_columns) * 100
service_score(rows, i) == Mul(Div(ServiceCount(rows[i]), Len(ServiceColumns)), 100, 1)

\* Tenure / Tenure.max() * 100
tenure_score(rows, i) == Mul(Div(rows[i].Tenure, MaxTenureOf(rows)), 100, 1)

contract_score(rows, i) == MapLookup(ContractScore, rows[i].ContractType)

\* service_score * 0.4 + tenure_score * 0.3 + contract_score * 0.3
engagement_score(rows, i) ==
    Add(Add(Mul(service_score(rows, i), 4, 10), Mul(tenure_score(rows, i), 3, 10)),
        Mul(contract_score(rows, i), 3, 10))

\* a score that reads the CLV column once another calculator has added it
EngagementScoresWithCLV(d) ==
    [i \in 1..NRows(d) |->
        IF HasColumn(d, "CLV")
        THEN Add(engagement_score(d.rows, i), Whole(Column(d, "CLV")[i]))
        ELSE engagement_score(d.rows, i)]

EngagementScores(d) == [i \in 1..NRows(d) |-> engagement_score(d.rows, i)]

calculate_engagement_score ==
    /\ result' = Return("calculate_engagement_score", None, EngagementScores(df))
    /\ UNCHANGED <<df, dp, cp, df0, trainCalled, lastImportance, recsSeen>>

-----------------------------------------------------------------------------
(* CLVAnalyzer *)

BasicCLVIntoTenure(d) == AssignColumn(d, "Tenure", CLVColumn(d))

\* self.df['CLV'] = self.df['MonthlyCharges'] * self.df['Tenure']
BasicCLVFrame(d) == AssignColumn(d, "CLV", CLVColumn(d))

calculate_basic_clv ==
    /\ df' = BasicCLVFrame(df)
    /\ result' = Return("calculate_basic_clv", None, CLVColumn(df))
    /\ recsSeen' = SeenAfter(df, df')
    /\ UNCHANGED <<dp, cp, df0, trainCalled, lastImportance>>

\* the j-th smallest cell (j from 0) of a column of whole numbers
KthSmallest(col, j) ==
    CHOOSE v \in Range(col) :
        /\ Cardinality({i \in DOMAIN col : col[i] < v}) <= j
        /\ j < Cardinality({i \in DOMAIN col : col[i] <= v})

\* the bin edges of pd.qcut(col, q=4), times 4: the quantiles 0, 1/4, 1/2,
\* 3/4 and 1 of the column with linear interpolation
QuartileEdges4(col) ==
    [k \in 0..4 |->
        LET pos4 == k * (Len(col) - 1)
            lo == pos4 \div 4
            f == pos4 % 4
        IN IF f = 0 THEN 4 * KthSmallest(col, lo)
           ELSE (4 - f) * KthSmallest(col, lo) + f * KthSmallest(col, lo + 1)]

\* pd.qcut raises ValueError when two bin edges are equal
QcutRaises(col) == \E k \in 0..3 : QuartileEdges4(col)[k] = QuartileEdges4(col)[k + 1]

ValueLabels == <<"Bronze", "Silver", "Gold", "Platinum">>

\* the bin of a cell: the first whose right edge is not below it, the lowest
\* edge being included in the first bin
QcutLabel(col, v) ==
    LET e == QuartileEdges4(col)
    IN ValueLabels[CHOOSE k \in 1..4 : 4 * v <= e[k] /\ (k = 1 \/ 4 * v > e[k - 1])]

ValueSegmentColumn(d) ==
    [i \in 1..NRows(d) |-> QcutLabel(Column(d, "TotalCharges"), d.rows[i].TotalCharges)]

\* groupby('ValueSegment').agg(...): per tier the number of rows and the sums
\* the means and the total are made of
ValueSummary(d, seg) ==
    [l \in Range(ValueLabels) |->
        LET members == {i \in 1..NRows(d) : seg[i] = l}
        IN [count |-> Cardinality(members),
            MonthlyCharges |-> SumOver(Column(d, "MonthlyCharges"), members, NRows(d)),
            Tenure |-> SumOver(Column(d, "Tenure"), members, NRows(d)),
            Churn |-> SumOver(Column(d, "Churn"), members, NRows(d)),
            TotalCharges |-> SumOver(Column(d, "TotalCharges"), members, NRows(d))]]

segment_value_analysis ==
    IF QcutRaises(Column(df, "TotalCharges"))
    THEN /\ result' = Raise("segment_value_analysis", None, "qcut")
         /\ UNCHANGED <<df, dp, cp, df0, trainCalled, lastImportance, recsSeen>>
    ELSE /\ df' = AssignColumn(df, "ValueSegment", ValueSegmentColumn(df))
         /\ result' = Return("segment_value_analysis", None,
                             ValueSummary(df, ValueSegmentColumn(df)))
         /\ recsSeen' = SeenAfter(df, df')
         /\ UNCHANGED <<dp, cp, df0, trainCalled, lastImportance>>

-----------------------------------------------------------------------------
(* The segmentation page *)

MinClusters == 2
MaxClusters == 6

FeatureOptions == {"Tenure", "MonthlyCharges", "TotalCharges", "SatisfactionScore"}

\* a call that shows st.warning(...) and returns
Warn(op, args) ==
    [op |-> op, args |-> args, status |-> "warning", raised |-> "none", value |-> None]

EnoughFeaturesOne(selected) == Cardinality(selected) >= 1

\* the page goes on past the test of line 34
EnoughFeatures(selected) == Cardinality(selected) >= 2

\* the row of X for record i
Point(d, selected, i) == [c \in selected |-> d.rows[i][c]]

Min2(a, b) == IF a <= b THEN a ELSE b

\* the number of different rows of X
DistinctPoints(d, selected) ==
    Cardinality({Point(d, selected, i) : i \in 1..NRows(d)})

\* a clustering that numbers its clusters from 1
KMeansLabelsFromOne(d, selected, k) ==
    {l \in [1..NRows(d) -> 1..k] :
          /\ \A i, j \in 1..NRows(d) :
                Point(d, selected, i) = Point(d, selected, j) => l[i] = l[j]
          /\ Cardinality(Range(l)) = Min2(k, DistinctPoints(d, selected))}

\* KMeans(n_clusters=k, random_state=42).fit_predict: equal points get the
\* same label, and as many labels are used as there are clusters, or distinct
\* points if these are fewer
KMeansLabels(d, selected, k) ==
    LET n == NRows(d)
        distinct == Cardinality({Point(d, selected, i) : i \in 1..n})
    IN {l \in [1..n -> 0..(k - 1)] :
          /\ \A i, j \in 1..n :
                Point(d, selected, i) = Point(d, selected, j) => l[i] = l[j]
          /\ Cardinality(Range(l)) = Min2(k, distinct)}

\* render_segmentation_page with the slider at k and the features selected:
\* KMeans raises ValueError when there are fewer rows than clusters
render_segmentation_page(k, selected) ==
    LET args == [n_selected |-> Cardinality(selected)] IN
    IF ~EnoughFeatures(selected)
    THEN /\ result' = Warn("render_segmentation_page", args)
         /\ UNCHANGED <<df, dp, cp, df0, trainCalled, lastImportance, recsSeen>>
    ELSE IF NRows(df) < k
    THEN /\ result' = Raise("render_segmentation_page", args, "KMeans")
         /\ UNCHANGED <<df, dp, cp, df0, trainCalled, lastImportance, recsSeen>>
    ELSE \E l \in KMeansLabels(df, selected, k) :
            /\ df' = AssignColumn(df, "Segment", l)
            /\ result' = Return("render_segmentation_page", args, "rendered")
            /\ recsSeen' = SeenAfter(df, df')
            /\ UNCHANGED <<dp, cp, df0, trainCalled, lastImportance>>

Segmentation ==
    \E k \in MinClusters..MaxClusters, selected \in SUBSET FeatureOptions :
        render_segmentation_page(k, selected)

-----------------------------------------------------------------------------
(* RecommendationEngine *)

Rec(type, description, priority) ==
    [type |-> type, description |-> description, priority |-> priority]

\* the rules with the contract upgrade High from 70 on and the two service
\* additions exchanged
CustomerRulesFrom70(r) ==
    (IF r.ContractType = "Month-to-Month"
     THEN <<Rec("Contract Upgrade", "Consider upgrading to an annual contract for better rates",
                IF r.MonthlyCharges >= 70 THEN "High" ELSE "Medium")>>
     ELSE << >>)
    \o (IF r.InternetService # "No" /\ r.StreamingMovies = "No"
        THEN <<Rec("Service Addition", "Add StreamingMovies service to your package", "Medium")>>
        ELSE << >>)
    \o (IF r.InternetService # "No" /\ r.StreamingTV = "No"
        THEN <<Rec("Service Addition", "Add StreamingTV service to your package", "Medium")>>
        ELSE << >>)
    \o (IF r.SatisfactionScore < 30
        THEN <<Rec("Retention", "Schedule customer satisfaction review", "High")>>
        ELSE << >>)

\* the rules of get_personalized_recommendations for one customer, appended
\* in the order of the code
CustomerRules(r) ==
    (IF r.ContractType = "Month-to-Month"
     THEN <<Rec("Contract Upgrade", "Consider upgrading to an annual contract for better rates",
                IF r.MonthlyCharges > 70 THEN "High" ELSE "Medium")>>
     ELSE << >>)
    \o (IF r.InternetService # "No" /\ r.StreamingTV = "No"
        THEN <<Rec("Service Addition", "Add StreamingTV service to your package", "Medium")>>
        ELSE << >>)
    \o (IF r.InternetService # "No" /\ r.StreamingMovies = "No"
        THEN <<Rec("Service Addition", "Add StreamingMovies service to your package", "Medium")>>
        ELSE << >>)
    \o (IF r.SatisfactionScore < 30
        THEN <<Rec("Retention", "Schedule customer satisfaction review", "High")>>
        ELSE << >>)

\* a list kept from one call to the next
RecommendationsKept(r) ==
    (IF result.op = "get_personalized_recommendations" /\ result.status = "ok"
     THEN Get(result.value) ELSE << >>) \o CustomerRules(r)

\* recommendations = [] ... return recommendations
PersonalizedRecommendations(r) == CustomerRules(r)

\* a lookup that gives an empty list when no row matches
PersonalizedResultEmptyOnMiss(d, customer_id) ==
    LET args == [customer_id |-> customer_id]
        matches == {i \in 1..NRows(d) : d.rows[i].CustomerID = customer_id}
    IN Return("get_personalized_recommendations", args,
              IF matches = {} THEN << >> ELSE CustomerRules(d.rows[SetMin(matches)]))

\* self.df[self.df['CustomerID'] == customer_id].iloc[0] raises IndexError
\* when no row matches
PersonalizedResult(d, customer_id) ==
    LET args == [customer_id |-> customer_id]
        matches == {i \in 1..NRows(d) : d.rows[i].CustomerID = customer_id}
    IN IF matches = {} THEN Raise("get_personalized_recommendations", args, "iloc")
       ELSE Return("get_personalized_recommendations", args,
                   PersonalizedRecommendations(d.rows[SetMin(matches)]))

\* the segment rules with the three thresholds included
SegmentRulesNotStrict(d, members) ==
    LET n == Cardinality(members)
        churn == SumOver(Column(d, "Churn"), members, NRows(d))
        satisfaction == SumOver(Column(d, "SatisfactionScore"), members, NRows(d))
        tenure == SumOver(Column(d, "Tenure"), members, NRows(d))
    IN (IF n > 0 /\ 10 * churn >= 3 * n
        THEN <<Rec("Retention", "Implement targeted retention program", "High")>>
        ELSE << >>)
       \o (IF n > 0 /\ satisfaction <= 35 * n
           THEN <<Rec("Satisfaction", "Launch satisfaction improvement initiative", "High")>>
           ELSE << >>)
       \o (IF n > 0 /\ tenure <= 12 * n
           THEN <<Rec("Engagement", "Develop early-stage engagement program", "Medium")>>
           ELSE << >>)

\* the rules of get_segment_recommendations: a mean of no rows is nan and
\* compares false
SegmentRules(d, members) ==
    LET n == Cardinality(members)
        churn == SumOver(Column(d, "Churn"), members, NRows(d))
        satisfaction == SumOver(Column(d, "SatisfactionScore"), members, NRows(d))
        tenure == SumOver(Column(d, "Tenure"), members, NRows(d))
    IN (IF n > 0 /\ 10 * churn > 3 * n
        THEN <<Rec("Retention", "Implement targeted retention program", "High")>>
        ELSE << >>)
       \o (IF n > 0 /\ satisfaction < 35 * n
           THEN <<Rec("Satisfaction", "Launch satisfaction improvement initiative", "High")>>
           ELSE << >>)
       \o (IF n > 0 /\ tenure < 12 * n
           THEN <<Rec("Engagement", "Develop early-stage engagement program", "Medium")>>
           ELSE << >>)

\* self.df['Segment'] raises KeyError before any segmentation run
SegmentResult(d, segment) ==
    LET args == [segment |-> segment] IN
    IF ~HasColumn(d, "Segment") THEN Raise("get_segment_recommendations", args, "Segment")
    ELSE Return("get_segment_recommendations", args,
                SegmentRules(d, {i \in 1..NRows(d) : Column(d, "Segment")[i] = segment}))

get_personalized_recommendations(customer_id) ==
    /\ result' = PersonalizedResult(df, customer_id)
    /\ recsSeen' \in Remember(recsSeen, result')
    /\ UNCHANGED <<df, dp, cp, df0, trainCalled, lastImportance>>

get_segment_recommendations(segment) ==
    /\ result' = SegmentResult(df, segment)
    /\ recsSeen' \in Remember(recsSeen, result')
    /\ UNCHANGED <<df, dp, cp, df0, trainCalled, lastImportance>>

GetPersonalizedRecommendations ==
    \E id \in 1..(NRows(df) + 1) : get_personalized_recommendations(id)

GetSegmentRecommendations ==
    \E g \in 0..MaxSegment : get_segment_recommendations(g)

-----------------------------------------------------------------------------
(* The calculators and the segmentation page on one shared dataset *)

DatasetRows ==
    {[DefaultRow EXCEPT !.Tenure = t, !.MonthlyCharges = mc, !.TotalCharges = mc * t] :
        t \in {0, 2}, mc \in {70}}

InitDataset == InitWith(Datasets(DatasetRows, {}))

NextDataset ==
    \/ calculate_basic_clv
    \/ segment_value_analysis
    \/ calculate_customer_metrics
    \/ calculate_risk_score
    \/ calculate_engagement_score
    \/ Segmentation

SpecDataset == InitDataset /\ [][NextDataset]_vars

\* the recommendation engine on a dataset that segmentation runs may label
RecommendationRows ==
    {[DefaultRow EXCEPT !.ContractType = ct, !.StreamingTV = tv, !.Churn = ch] :
        ct \in {"Month-to-Month", "Two Year"}, tv \in {"No"}, ch \in {0, 1}}

InitRecommendations == InitWith(Datasets(RecommendationRows, {}))

NextRecommendations ==
    \/ GetPersonalizedRecommendations
    \/ GetSegmentRecommendations
    \/ Segmentation

SpecRecommendations == InitRecommendations /\ [][NextRecommendations]_vars

-----------------------------------------------------------------------------
(* The risk scorer on datasets of well-formed numbers *)

TenureValues == {0, 2}
SatisfactionValues == {10, 30}
UnknownContract == "Month-to-month"      \* the raw spelling, not a key of the tables
UnknownPayment == "Electronic Check"     \* the seeder's spelling, not a key

RiskRows ==
    {[DefaultRow EXCEPT !.Tenure = t, !.SatisfactionScore = sat, !.ContractType = ct,
                        !.PaymentMethod = pm] :
        t \in TenureValues, sat \in SatisfactionValues,
        ct \in {"Month-to-Month", "One Year", UnknownContract},
        pm \in {"Bank transfer (automatic)", UnknownPayment}}

InitRisk == InitWith(Datasets(RiskRows, {}))

NextRisk == calculate_risk_score \/ get_risk_categories

SpecRisk == InitRisk /\ [][NextRisk]_vars

-----------------------------------------------------------------------------
(* Claims about the ChurnPredictor and the DataProcessor *)

Untrained == IsNone(cp.model) /\ IsNone(cp.feature_importance)
Trained == ~IsNone(cp.model) /\ ~IsNone(cp.feature_importance)

\* C1: before any train call, predict and get_top_features end in an error
\* and return no result.
C1_UntrainedCallsFail ==
    (~trainCalled /\ result.op \in {"predict", "get_top_features"})
        => (result.status = "error" /\ IsNone(result.value))

C1_Witness ==
    /\ ~trainCalled
    /\ result.op = "predict"
    /\ result.status = "error"
    /\ Untrained

\* C2: the predictor is always either Untrained or Trained; it is Untrained
\* until a train call returns; once a train call has returned it is Trained
\* for good, and the stored feature importances are those of the last train
\* call that returned.
C2_TwoStates ==
    /\ Untrained \/ Trained
    /\ IsNone(lastImportance) => Untrained
    /\ ~IsNone(lastImportance) =>
          /\ Trained
          /\ \A i \in DOMAIN Get(cp.feature_importance) :
                Get(cp.feature_importance)[i].importance
                    = Get(lastImportance)[Get(cp.feature_importance)[i].feature]
          /\ Len(Get(cp.feature_importance)) = Len(Get(lastImportance))

\* C3: a step that raises inside train, predict, prepare_model_data or
\* calculate_customer_metrics ends the call in an error: the call returns no
\* value.
C3_NoErrorSwallowed ==
    (/\ result.op \in {"train", "predict", "prepare_model_data", "calculate_customer_metrics"}
     /\ result.raised # "none")
        => (result.status = "error" /\ IsNone(result.value))

C3_Witness ==
    /\ result.op = "train"
    /\ result.raised = "cross_val_score"
    /\ result.status = "error"

\* C4: a prepare_model_data call that fails leaves the DataProcessor's
\* label_encoders and scaler and the dataset as they were before the call.
C4_FailureLeavesNoPartialState ==
    [][(PrepareModelData /\ result'.status = "error") => (dp' = dp /\ df' = df)]_vars

-----------------------------------------------------------------------------
(* Claims about the risk scorer *)

KnownCategories(r) == r.ContractType \in DOMAIN ContractRisk /\ r.PaymentMethod \in DOMAIN PaymentRisk
InRange(x, lo, hi) == ~x.nan /\ Le(Whole(lo), x) /\ Le(x, Whole(hi))

\* C9 as stated: calculate_risk_score gives every record of a dataset with
\* tenure >= 0, satisfaction in [1,5] and contract types and payment methods
\* of the lookup tables a risk value in [0,100].
C9_RiskInRange ==
    (result.op = "calculate_risk_score" /\ \A i \in DOMAIN df.rows : KnownCategories(df.rows[i]))
        => \A i \in DOMAIN df.rows : InRange(Get(result.value)[i], 0, 100)

\* what holds of the risk values: a record whose contract type and payment
\* method are keys of the lookup tables, in a dataset whose largest tenure is
\* positive, gets a risk value in [0,100]; every other record gets nan.
RiskInRangeWhenDefined ==
    result.op = "calculate_risk_score" =>
        \A i \in DOMAIN df.rows :
            IF KnownCategories(df.rows[i]) /\ MaxTenureOf(df.rows) > 0
            THEN InRange(Get(result.value)[i], 0, 100)
            ELSE Get(result.value)[i].nan

\* a dataset with one record of each kind
RiskDefinedAndUndefined ==
    /\ result.op = "calculate_risk_score"
    /\ NRows(df) = 2
    /\ MaxTenureOf(df.rows) > 0
    /\ KnownCategories(df.rows[1])
    /\ InRange(Get(result.value)[1], 0, 100)
    /\ ~KnownCategories(df.rows[2])
    /\ Get(result.value)[2].nan

-----------------------------------------------------------------------------
(* Claims about the segmentation page, the calculators and the
   recommendation engine *)

C6_AppendOnlyDerived ==
    /\ BaseView(df) = BaseView(df0)
    /\ Range(df.columns) \subseteq Range(BaseColumns) \cup DerivedColumns
    /\ \A c \in DerivedColumns : HasColumn(df, c) <=> ~IsNone(df.derived[c])

\* all five derived columns have been added, on rows that differ
C6_Witness ==
    /\ HasColumns(df, DerivedColumns)
    /\ NRows(df) = MaxRows
    /\ \E i \in 1..NRows(df) : df.rows[i].Tenure > 0 /\ CLVColumn(df)[i] # df.rows[i].Tenure

Calculators == {"calculate_basic_clv", "calculate_risk_score", "calculate_engagement_score"}

\* what a calculator returns for a dataset nothing has been called on
FreshValue(op, d) ==
    CASE op = "calculate_basic_clv" -> CLVColumn(d)
      [] op = "calculate_risk_score" -> RiskScores(d)
      [] OTHER -> EngagementScores(d)

RecommendationOps == {"get_personalized_recommendations", "get_segment_recommendations"}

\* C8: a call of the recommendation engine leaves the dataset unchanged and
\* returns what the same call returned before on the same dataset
C8_NoSideEffects ==
    [][result'.op \in RecommendationOps =>
         /\ df' = df
         /\ (/\ ~IsNone(recsSeen)
             /\ Get(recsSeen).op = result'.op
             /\ Get(recsSeen).args = result'.args) => result' = Get(recsSeen)]_vars

\* both kinds of call have returned lists with recommendations in them
C8_Witness ==
    /\ result.op = "get_segment_recommendations"
    /\ result.status = "ok"
    /\ Len(Get(result.value)) > 0
    /\ ~IsNone(recsSeen)
    /\ Get(recsSeen).op = "get_personalized_recommendations"
    /\ Get(recsSeen).status = "ok"
    /\ Len(Get(Get(recsSeen).value)) > 0

-----------------------------------------------------------------------------
(* Claims about the risk score: order, formula, unknown categories *)

CategoryRank == [c \in {"Low Risk", "Medium Risk", "High Risk"} |->
                    CASE c = "Low Risk" -> 1 [] c = "Medium Risk" -> 2 [] OTHER -> 3]

\* C11: of two records of one dataset with risk scores a <= b, both get a
\* category and the category of a does not rank above the category of b
C11_BucketsMonotonic ==
    result.op = "get_risk_categories" =>
        \A i, j \in DOMAIN df.rows :
            LET a == Get(result.value).scores[i]
                b == Get(result.value).scores[j]
                ca == Get(result.value).categories[i]
                cb == Get(result.value).categories[j]
            IN (~a.nan /\ ~b.nan /\ Le(a, b)) =>
                  /\ ca \in DOMAIN CategoryRank
                  /\ cb \in DOMAIN CategoryRank
                  /\ CategoryRank[ca] <= CategoryRank[cb]

\* two records of one dataset, the lower score Low and the higher High
C11_Witness ==
    /\ result.op = "get_risk_categories"
    /\ \E i, j \in DOMAIN df.rows :
          /\ ~Get(result.value).scores[i].nan
          /\ ~Get(result.value).scores[j].nan
          /\ Lt(Get(result.value).scores[i], Get(result.value).scores[j])
          /\ Get(result.value).categories[i] = "Low Risk"
          /\ Get(result.value).categories[j] = "High Risk"

\* the formula of the risk score in closed form, for a record with known
\* categories in rows whose largest tenure is m > 0:
\* 30 (m - t) / m + (3 (50 - s) + C + P) / 5, s being the satisfaction in tenths
ExpectedRisk(rows, i) ==
    LET m == MaxTenureOf(rows)
        r == rows[i]
    IN Num(150 * (m - r.Tenure)
             + m * (3 * (50 - r.SatisfactionScore) + ContractRisk[r.ContractType]
                      + PaymentRisk[r.PaymentMethod]),
           5 * m)

SubScoresInRange(rows, i) ==
    /\ InRange(tenure_risk(rows, i), 0, 100)
    /\ InRange(satisfaction_risk(rows, i), 0, 100)
    /\ InRange(contract_risk(rows, i), 0, 100)
    /\ InRange(payment_risk(rows, i), 0, 100)

\* C12: the risk score of a record with a contract type and a payment method
\* of the lookup tables is 0.3 tenure_risk + 0.3 satisfaction_risk
\* + 0.2 contract_risk + 0.2 payment_risk, each of the four in [0,100]
C12_RiskFormula ==
    result.op = "calculate_risk_score" =>
        \A i \in DOMAIN df.rows :
            KnownCategories(df.rows[i]) =>
                /\ SubScoresInRange(df.rows, i)
                /\ Eq(Get(result.value)[i], ExpectedRisk(df.rows, i))

\* what holds of the formula: it is the score wherever the largest tenure of
\* the dataset is positive
RiskFormulaWhenDefined ==
    (result.op = "calculate_risk_score" /\ MaxTenureOf(df.rows) > 0) =>
        \A i \in DOMAIN df.rows :
            KnownCategories(df.rows[i]) =>
                /\ SubScoresInRange(df.rows, i)
                /\ Eq(Get(result.value)[i], ExpectedRisk(df.rows, i))

\* the rows with every contract type and payment method outside the lookup
\* tables replaced by one inside
WithKnownCategories(rows) ==
    [i \in DOMAIN rows |->
        [rows[i] EXCEPT
            !.ContractType = IF @ \in DOMAIN ContractRisk THEN @ ELSE "One Year",
            !.PaymentMethod = IF @ \in DOMAIN PaymentRisk THEN @ ELSE "Mailed check"]]

ScoresOf(res) == IF res.op = "get_risk_categories" THEN Get(res.value).scores ELSE Get(res.value)

\* C13: neither call raises on a contract type or payment method outside the
\* lookup tables; the score of such a record is nan and its category missing,
\* and every other record has the score it has when those records carry
\* known categories
C13_UnknownCategoryMissing ==
    result.op \in {"calculate_risk_score", "get_risk_categories"} =>
        /\ result.status = "ok"
        /\ \A i \in DOMAIN df.rows :
              IF KnownCategories(df.rows[i])
              THEN ScoresOf(result)[i] = risk_score(WithKnownCategories(df.rows), i)
              ELSE /\ ScoresOf(result)[i].nan
                   /\ result.op = "get_risk_categories" =>
                         Get(result.value).categories[i] = NaN

\* a record with the seeder's spelling of the payment method beside a record
\* that has a score and a category
C13_Witness ==
    /\ result.op = "get_risk_categories"
    /\ NRows(df) = 2
    /\ df.rows[1].PaymentMethod = UnknownPayment
    /\ df.rows[1].ContractType \in DOMAIN ContractRisk
    /\ Get(result.value).categories[1] = NaN
    /\ KnownCategories(df.rows[2])
    /\ Get(result.value).categories[2] = "Medium Risk"

-----------------------------------------------------------------------------
(* The engagement analyzer on datasets of its own *)

\* the four service columns of a customer with every service and of one
\* with none
ServiceProfiles ==
    {[InternetService |-> "DSL", PhoneService |-> "Yes", StreamingTV |-> "Yes",
      StreamingMovies |-> "Yes"],
     [InternetService |-> "No", PhoneService |-> "No", StreamingTV |-> "No",
      StreamingMovies |-> "No"]}

EngagementRows ==
    {[DefaultRow EXCEPT !.Tenure = t, !.ContractType = ct,
                        !.InternetService = sp.InternetService,
                        !.PhoneService = sp.PhoneService,
                        !.StreamingTV = sp.StreamingTV,
                        !.StreamingMovies = sp.StreamingMovies] :
        t \in TenureValues, ct \in {"Month-to-Month", "Two Year", UnknownContract},
        sp \in ServiceProfiles}

InitEngagement == InitWith(Datasets(EngagementRows, {}))

NextEngagement == calculate_engagement_score

SpecEngagement == InitEngagement /\ [][NextEngagement]_vars

\* C14: calculate_engagement_score gives every record with a contract type of
\* the lookup table a score e with 0 <= e <= 100
C14_EngagementInRange ==
    result.op = "calculate_engagement_score" =>
        \A i \in DOMAIN df.rows :
            df.rows[i].ContractType \in DOMAIN ContractScore =>
                InRange(Get(result.value)[i], 0, 100)

\* what holds of the engagement score: in a dataset whose largest tenure is
\* positive a record with a known contract type gets a score in [0,100], the
\* three parts being in [0,100]; every other record gets nan
EngagementInRangeWhenDefined ==
    result.op = "calculate_engagement_score" =>
        \A i \in DOMAIN df.rows :
            IF df.rows[i].ContractType \in DOMAIN ContractScore /\ MaxTenureOf(df.rows) > 0
            THEN /\ InRange(Get(result.value)[i], 0, 100)
                 /\ InRange(service_score(df.rows, i), 0, 100)
                 /\ InRange(tenure_score(df.rows, i), 0, 100)
                 /\ InRange(contract_score(df.rows, i), 0, 100)
            ELSE Get(result.value)[i].nan

\* the largest and the smallest score with a positive largest tenure
EngagementExtremes ==
    /\ result.op = "calculate_engagement_score"
    /\ \E i, j \in DOMAIN df.rows :
          /\ Eq(Get(result.value)[i], Whole(100))
          /\ Eq(Get(result.value)[j], Num(99, 10))


-----------------------------------------------------------------------------
(* The personalized recommendations on datasets of their own *)

\* contract type and monthly charges on both sides of 70
ContractProfiles ==
    {[ContractType |-> "Month-to-Month", MonthlyCharges |-> 70],
     [ContractType |-> "Month-to-Month", MonthlyCharges |-> 71],
     [ContractType |-> "Two Year", MonthlyCharges |-> 70]}

\* internet service with each streaming service present or absent, and no
\* internet service
StreamingProfiles ==
    {[InternetService |-> "DSL", StreamingTV |-> "No", StreamingMovies |-> "No"],
     [InternetService |-> "DSL", StreamingTV |-> "No", StreamingMovies |-> "Yes"],
     [InternetService |-> "DSL", StreamingTV |-> "Yes", StreamingMovies |-> "No"],
     [InternetService |-> "No", StreamingTV |-> "No", StreamingMovies |-> "No"]}

PersonalizedRows ==
    {[DefaultRow EXCEPT !.ContractType = cp0.ContractType,
                        !.MonthlyCharges = cp0.MonthlyCharges,
                        !.InternetService = sp.InternetService,
                        !.StreamingTV = sp.StreamingTV,
                        !.StreamingMovies = sp.StreamingMovies,
                        !.SatisfactionScore = s] :
        cp0 \in ContractProfiles, sp \in StreamingProfiles, s \in {29, 30}}

InitPersonalized == InitWith(Datasets(PersonalizedRows, {}))

NextPersonalized == GetPersonalizedRecommendations

SpecPersonalized == InitPersonalized /\ [][NextPersonalized]_vars

\* the four rules in the order of the claim, each with its condition for the
\* customer r
RuleTable(r) ==
    << [applies |-> r.ContractType = "Month-to-Month",
        rec |-> [type |-> "Contract Upgrade",
                 description |-> "Consider upgrading to an annual contract for better rates",
                 priority |-> IF r.MonthlyCharges > 70 THEN "High" ELSE "Medium"]],
       [applies |-> r.InternetService # "No" /\ r.StreamingTV = "No",
        rec |-> [type |-> "Service Addition",
                 description |-> "Add StreamingTV service to your package",
                 priority |-> "Medium"]],
       [applies |-> r.InternetService # "No" /\ r.StreamingMovies = "No",
        rec |-> [type |-> "Service Addition",
                 description |-> "Add StreamingMovies service to your package",
                 priority |-> "Medium"]],
       [applies |-> r.SatisfactionScore < 30,
        rec |-> [type |-> "Retention",
                 description |-> "Schedule customer satisfaction review",
                 priority |-> "High"]] >>

ApplicableRules(r) ==
    LET kept == SelectSeq(RuleTable(r), LAMBDA e : e.applies)
    IN [k \in 1..Len(kept) |-> kept[k].rec]

\* C15: the personalized recommendations of a customer are exactly the
\* applicable rules, once each, in the order contract upgrade, add streaming
\* TV, add streaming movies, retention review; the upgrade is High only
\* above 70 of monthly charges
C15_PersonalizedRules ==
    (result.op = "get_personalized_recommendations" /\ result.status = "ok") =>
        Get(result.value) = ApplicableRules(df.rows[result.args.customer_id])

\* a Month-to-Month customer at exactly 70 with no streaming service and a
\* satisfaction below 3 has received all four recommendations, the upgrade
\* at Medium
C15_Witness ==
    /\ result.op = "get_personalized_recommendations"
    /\ result.status = "ok"
    /\ df.rows[result.args.customer_id].MonthlyCharges = 70
    /\ Len(Get(result.value)) = 4
    /\ Get(result.value)[1].priority = "Medium"
    /\ Get(result.value)[2].description = "Add StreamingTV service to your package"
    /\ Get(result.value)[4].type = "Retention"

-----------------------------------------------------------------------------
(* The segment recommendations on datasets of their own *)

\* churned or not, tenure on both sides of 12, satisfaction on both sides
\* of 3.5: two of the records have a mean tenure of 12 and a mean
\* satisfaction of 3.5
SegmentProfiles ==
    {[Churn |-> 1, Tenure |-> 13, SatisfactionScore |-> 34],
     [Churn |-> 1, Tenure |-> 11, SatisfactionScore |-> 36],
     [Churn |-> 0, Tenure |-> 11, SatisfactionScore |-> 30]}

SegmentRows ==
    {[DefaultRow EXCEPT !.Churn = sp.Churn, !.Tenure = sp.Tenure,
                        !.SatisfactionScore = sp.SatisfactionScore] :
        sp \in SegmentProfiles}

InitSegment == InitWith(Datasets(SegmentRows, {}))

NextSegment ==
    \/ Segmentation
    \/ GetSegmentRecommendations

SpecSegment == InitSegment /\ [][NextSegment]_vars

SegmentMembers(d, segment) == {i \in 1..NRows(d) : Column(d, "Segment")[i] = segment}

\* the mean of a column over the rows of a segment, as an exact number
SegmentMean(d, c, segment) ==
    Div(SumOver(Column(d, c), SegmentMembers(d, segment), NRows(d)),
        Cardinality(SegmentMembers(d, segment)))

Above(x, y) == ~x.nan /\ Lt(y, x)
Below(x, y) == ~x.nan /\ Lt(x, y)

\* the three segment rules in the order of the claim, each with its
\* condition on the means of the segment
SegmentRuleTable(d, segment) ==
    << [applies |-> Above(SegmentMean(d, "Churn", segment), Num(3, 10)),
        rec |-> [type |-> "Retention",
                 description |-> "Implement targeted retention program",
                 priority |-> "High"]],
       [applies |-> Below(SegmentMean(d, "SatisfactionScore", segment), Whole(35)),
        rec |-> [type |-> "Satisfaction",
                 description |-> "Launch satisfaction improvement initiative",
                 priority |-> "High"]],
       [applies |-> Below(SegmentMean(d, "Tenure", segment), Whole(12)),
        rec |-> [type |-> "Engagement",
                 description |-> "Develop early-stage engagement program",
                 priority |-> "Medium"]] >>

ApplicableSegmentRules(d, segment) ==
    LET kept == SelectSeq(SegmentRuleTable(d, segment), LAMBDA e : e.applies)
    IN [k \in 1..Len(kept) |-> kept[k].rec]

SegmentAllThree ==
    /\ result.op = "get_segment_recommendations"
    /\ result.status = "ok"
    /\ Len(Get(result.value)) = 3
    /\ Get(result.value)[1].type = "Retention"
    /\ Get(result.value)[2].type = "Satisfaction"
    /\ Get(result.value)[3].type = "Engagement"

-----------------------------------------------------------------------------
(* Claims about the predictor: top features and the split *)

\* the ranking by descending importance that keeps features of equal
\* importance in column order
ColumnOrderRanking(imp) ==
    CHOOSE r \in Rankings(Len(imp), imp) :
        \A i, j \in 1..Len(imp) : (i < j /\ imp[r[i]] = imp[r[j]]) => r[i] < r[j]

\* C17: after a training run get_top_features(n) returns the n features of
\* highest importance of the last run (all of them when n is larger), by
\* descending importance, features of equal importance in column order
C17_TopFeatures ==
    (result.op = "get_top_features" /\ result.status = "ok") =>
        Get(result.value) =
            head(FeatureFrame(Get(lastImportance), ColumnOrderRanking(Get(lastImportance))),
                 result.args.n)

\* what holds of the order: the rows returned are the first n (or all) of
\* the features, each once with its importance of the last run, by
\* descending importance, and no feature left out has a higher importance
\* than one returned
TopFeaturesDescending ==
    (result.op = "get_top_features" /\ result.status = "ok") =>
        LET imp == Get(lastImportance)
            top == Get(result.value)
            chosen == {top[i].feature : i \in DOMAIN top}
        IN /\ Len(top) = Min2(result.args.n, Len(imp))
           /\ Cardinality(chosen) = Len(top)
           /\ chosen \subseteq DOMAIN imp
           /\ \A i \in DOMAIN top : top[i].importance = imp[top[i].feature]
           /\ \A i \in 1..(Len(top) - 1) : top[i].importance >= top[i + 1].importance
           /\ \A f \in DOMAIN imp \ chosen : \A i \in DOMAIN top : imp[f] <= top[i].importance

\* two features of equal importance have been returned against their column
\* order, and a call with n above the number of features has returned all
TopFeaturesTieOutOfOrder ==
    /\ result.op = "get_top_features"
    /\ result.status = "ok"
    /\ Len(Get(result.value)) = 2
    /\ result.args.n > 2
    /\ Get(result.value)[1].importance = Get(result.value)[2].importance
    /\ Get(result.value)[1].feature > Get(result.value)[2].feature

\* a cell of a confusion matrix, 0 for a pair of labels it has no cell for
Cell(cm, p) == IF p \in DOMAIN cm THEN cm[p] ELSE 0

CellSum(cm) == Cell(cm, <<0, 0>>) + Cell(cm, <<0, 1>>) + Cell(cm, <<1, 0>>) + Cell(cm, <<1, 1>>)

\* C18: a successful train has split the rows into a training and a held-out
\* partition that together hold every row once, the held-out one being 20%
\* of the rows (rounded up to whole rows); the fit is on the training
\* partition, and the cells of the confusion matrix sum to the held-out size
C18_SplitPartitions ==
    (result.op = "train" /\ result.status = "ok") =>
        LET v == Get(result.value)
            n == v.n_rows
        IN /\ v.n_train > 0 /\ v.n_test > 0
           /\ v.n_train + v.n_test = n
           /\ 5 * v.n_test >= n
           /\ 5 * (v.n_test - 1) < n
           /\ CellSum(v.confusion_matrix) = v.n_test
           /\ \A p \in DOMAIN v.confusion_matrix : v.confusion_matrix[p] >= 0

\* a train on seven rows has held out two of them and returned a confusion
\* matrix of four cells with a wrong prediction in it
C18_Witness ==
    /\ result.op = "train"
    /\ result.status = "ok"
    /\ Get(result.value).n_rows = 7
    /\ Get(result.value).n_test = 2
    /\ Get(result.value).n_train = 5
    /\ Cardinality(DOMAIN Get(result.value).confusion_matrix) = 4
    /\ Get(result.value).confusion_matrix[<<0, 1>>] = 1

\* a train on five rows has held out exactly one
SplitOfFiveRows ==
    /\ result.op = "train"
    /\ result.status = "ok"
    /\ Get(result.value).n_rows = 5
    /\ Get(result.value).n_test = 1

-----------------------------------------------------------------------------
(* The feature preparation on datasets of its own *)

\* records that differ in their strings, their tenure and their label
PrepareRows ==
    {[DefaultRow EXCEPT !.Gender = g, !.ContractType = ct, !.Tenure = t,
                        !.Churn = IF t = 1 THEN 1 ELSE 0] :
        g \in {"Male", "Female"}, ct \in {"Month-to-Month", "Two Year"}, t \in {1, 3}}

InitPrepare == InitWith(Datasets(PrepareRows, {}))

NextPrepare == PrepareModelData \/ calculate_customer_metrics

SpecPrepare == InitPrepare /\ [][NextPrepare]_vars

Dropped(target) == {"CustomerID", "LastUpdate", target}

\* the cell of a numerical column is a number, that of a column of strings
\* a string
SameOrder(d, c, xs, i, j) ==
    IF Dtype(c) = "object"
    THEN (Column(d, c)[i] = Column(d, c)[j]) <=> (xs[i][c] = xs[j][c])
    ELSE IF c = "ARPU"
    THEN Le(Num(Column(d, c)[i].num, Column(d, c)[i].den),
            Num(Column(d, c)[j].num, Column(d, c)[j].den)) <=> Le(xs[i][c].dev, xs[j][c].dev)
    ELSE (Column(d, c)[i] <= Column(d, c)[j]) <=> Le(xs[i][c].dev, xs[j][c].dev)

\* C19: the X of prepare_model_data has no CustomerID, no LastUpdate and no
\* target column, has every other column of the dataset, and has one row for
\* each row of the dataset in the order of the dataset; y is the target
\* column of these rows
C19_FeatureMatrix ==
    (result.op = "prepare_model_data" /\ result.status = "ok") =>
        LET v == Get(result.value)
            t == result.args.target_col
        IN /\ Range(v.columns) \cap Dropped(t) = {}
           /\ Range(v.columns) = Range(df.columns) \ Dropped(t)
           /\ Len(v.X) = NRows(df)
           /\ \A i \in DOMAIN v.X : DOMAIN v.X[i] = Range(v.columns)
           /\ \A c \in Range(v.columns) : \A i, j \in DOMAIN v.X : SameOrder(df, c, v.X, i, j)
           /\ v.y = Column(df, t)

\* a dataset of two records with different tenures and labels, to which the
\* customer metrics were added, has been prepared
C19_Witness ==
    /\ result.op = "prepare_model_data"
    /\ result.status = "ok"
    /\ NRows(df) = 2
    /\ df.rows[1].Tenure > df.rows[2].Tenure
    /\ HasColumn(df, "CLV")
    /\ "CLV" \in Range(Get(result.value).columns)
    /\ Get(result.value).y = <<0, 1>>

\* C20: a prepare_model_data call returns what a call on a new DataProcessor
\* of the same dataset returns, the same shape and the same encoded values,
\* whatever calls were made before
C20_PrepareDeterministic ==
    result.op = "prepare_model_data" =>
        result = PrepareResult(DataProcessor, df, result.args.target_col)

\* a call has returned a matrix with two different codes in a column of
\* strings, on a DataProcessor that had been called before on this dataset
C20_Witness ==
    /\ result.op = "prepare_model_data"
    /\ result.status = "ok"
    /\ NRows(df) = 2
    /\ Get(result.value).X[1].ContractType # Get(result.value).X[2].ContractType
    /\ ~IsNone(recsSeen)
    /\ Get(recsSeen).op = "prepare_model_data"
    /\ Get(recsSeen) # result

-----------------------------------------------------------------------------
(* Claims about the value segments *)

ValueRank(l) == CHOOSE k \in DOMAIN ValueLabels : ValueLabels[k] = l

\* the value segments of the dataset are labels of the four tiers, a record
\* of a lower tier never having higher total charges than one of a higher
\* tier, and the summary counts every record in one tier
ValueSegmentsOrdered ==
    /\ HasColumn(df, "ValueSegment")
    /\ \A i \in 1..NRows(df) : Column(df, "ValueSegment")[i] \in Range(ValueLabels)
    /\ \A i, j \in 1..NRows(df) :
          ValueRank(Column(df, "ValueSegment")[i]) < ValueRank(Column(df, "ValueSegment")[j])
              => df.rows[i].TotalCharges <= df.rows[j].TotalCharges
    /\ DOMAIN Get(result.value) = Range(ValueLabels)
    /\ SumOver([k \in 1..4 |-> Get(result.value)[ValueLabels[k]].count], 1..4, 4) = NRows(df)

\* C21: segment_value_analysis gives every record exactly one of the labels
\* Bronze, Silver, Gold, Platinum, in four groups that cover all the records
\* and are ordered by total charges
C21_ValueSegments ==
    result.op = "segment_value_analysis" => (result.status = "ok" /\ ValueSegmentsOrdered)

\* what holds of the value segments: a call that returns has labelled every
\* record with one tier, in the order of the total charges
ValueSegmentsWhenReturned ==
    (result.op = "segment_value_analysis" /\ result.status = "ok") => ValueSegmentsOrdered

\* a call has returned on records of different total charges
ValueSegmentsReturned ==
    /\ result.op = "segment_value_analysis"
    /\ result.status = "ok"
    /\ df.rows[1].TotalCharges < df.rows[2].TotalCharges

-----------------------------------------------------------------------------
(* DataLoader: the ingestion transform on the frame read from the file *)

\* a cell of the file: a text, a number, or nothing
Text(t) == <<"text", t>>
Number(n) == <<"number", n>>
Missing == <<"nan", 0>>

\* pd.to_numeric(errors='coerce') on the TotalCharges cells of the model: a
\* number stays, the text of a number is parsed, any other text is nan
ToNumeric(c) ==
    IF c[1] = "number" THEN c
    ELSE IF c = Text("140") THEN Number(140)
    ELSE Missing

\* df['TotalCharges'].fillna(v, inplace=True): the fill reaches the frame
\* when the selected column is a view of it, and is lost when pandas runs
\* with copy-on-write and the selected column is a copy
FillNa(c, v, written) == IF c = Missing /\ written THEN v ELSE c

\* Series.map(contract_mapping): a value that is no key becomes nan
ContractMapping ==
    [k \in {"Month-to-month", "One year", "Two year"} |->
        CASE k = "Month-to-month" -> "Month-to-Month"
          [] k = "One year" -> "One Year"
          [] OTHER -> "Two Year"]

MapContract(c) ==
    IF c[1] = "text" /\ c[2] \in DOMAIN ContractMapping THEN Text(ContractMapping[c[2]])
    ELSE Missing

\* (df['Churn'] == 'Yes').astype(int)
ChurnToInt(c) == IF c = Text("Yes") THEN 1 ELSE 0

\* 5 - Churn * 2 + normal(0, 0.5), clipped to [1, 5] and rounded to one
\* decimal: the noise is in hundredths, the score in tenths
Clip(x, lo, hi) == IF x < lo THEN lo ELSE IF x > hi THEN hi ELSE x

SyntheticSatisfaction(churn, noise) == (Clip(500 - 200 * churn + noise, 100, 500) + 5) \div 10

\* one record after the steps 2, 3, 4 and 6 of transform_telco_data
TransformRecord(r, written) ==
    [r EXCEPT !.TotalCharges = FillNa(ToNumeric(r.TotalCharges),
                                      Number(r.MonthlyCharges * r.Tenure), written),
              !.ContractType = MapContract(r.ContractType),
              !.Churn = ChurnToInt(r.Churn),
              !.SatisfactionScore = SyntheticSatisfaction(ChurnToInt(r.Churn), r.noise)]

transform_telco_data(frame, written) ==
    [i \in DOMAIN frame |-> TransformRecord(frame[i], written)]

\* load_data: the frame of the file is transformed and handed on; df is the
\* frame that read_csv returned
load_data(written) ==
    /\ result' = Return("load_data", None, transform_telco_data(df, written))
    /\ UNCHANGED <<df, dp, cp, df0, trainCalled, lastImportance, recsSeen>>

LoadData == \E written \in BOOLEAN : load_data(written)

\* records of the IBM Telco file (Contract and Churn as texts, TotalCharges
\* as a text that may be blank) and of a file in the schema of the seeder;
\* the satisfaction score is a column that the transform writes, and noise
\* is the draw of np.random.normal for the record
FileContracts ==
    {[ContractType |-> Text("Month-to-month"), Churn |-> Text("Yes")],
     [ContractType |-> Text("Two year"), Churn |-> Text("No")],
     [ContractType |-> Text("Month-to-Month"), Churn |-> Number(1)],
     [ContractType |-> Text("One Year"), Churn |-> Number(0)]}

FileRows ==
    {[Tenure |-> 2, MonthlyCharges |-> 70, TotalCharges |-> tc,
      ContractType |-> fc.ContractType, Churn |-> fc.Churn,
      SatisfactionScore |-> Missing, noise |-> z] :
        tc \in {Text("140"), Text(" "), Missing, Number(145)},
        fc \in FileContracts, z \in {-350, 26}}

FileFrames == UNION {[1..n -> FileRows] : n \in 1..MaxRows}

InitIngest ==
    /\ df \in FileFrames
    /\ df0 = df
    /\ dp = DataProcessor
    /\ cp = ChurnPredictor
    /\ result = NoCall
    /\ trainCalled = FALSE
    /\ lastImportance = None
    /\ recsSeen = None

NextIngest == LoadData

SpecIngest == InitIngest /\ [][NextIngest]_vars

\* C22: every record that ingestion hands on has a numeric total charges, a
\* malformed or missing one replaced by monthly charges times tenure and a
\* well-formed one unchanged, a satisfaction score in [1, 5] and a churn of
\* 0 or 1
C22_IngestInvariants ==
    result.op = "load_data" =>
        \A i \in DOMAIN df :
            LET r == Get(result.value)[i] IN
            /\ r.TotalCharges[1] = "number"
            /\ r.TotalCharges[2] = (IF df[i].TotalCharges = Text("140") THEN 140
                                    ELSE IF df[i].TotalCharges[1] = "number"
                                    THEN df[i].TotalCharges[2]
                                    ELSE df[i].MonthlyCharges * df[i].Tenure)
            /\ r.SatisfactionScore >= 10 /\ r.SatisfactionScore <= 50
            /\ r.Churn \in {0, 1}

\* what holds whatever pandas does with the fill: well-formed total charges
\* are unchanged, the others are the product or still missing, and the
\* satisfaction score and the churn label are in their ranges
IngestInvariantsButFill ==
    result.op = "load_data" =>
        \A i \in DOMAIN df :
            LET r == Get(result.value)[i] IN
            /\ ToNumeric(df[i].TotalCharges) # Missing => r.TotalCharges = ToNumeric(df[i].TotalCharges)
            /\ ToNumeric(df[i].TotalCharges) = Missing =>
                   (\/ r.TotalCharges = Missing
                    \/ r.TotalCharges = Number(df[i].MonthlyCharges * df[i].Tenure))
            /\ r.SatisfactionScore >= 10 /\ r.SatisfactionScore <= 50
            /\ r.Churn \in {0, 1}

\* a blank total charges has been replaced by the product
IngestFilled ==
    /\ result.op = "load_data"
    /\ df[1].TotalCharges = Text(" ")
    /\ Get(result.value)[1].TotalCharges = Number(140)

TargetContracts == {"Month-to-Month", "One Year", "Two Year"}

\* C28: the ingestion transform keeps the ContractType and the Churn of a
\* record that is already in the target schema: a contract type spelled
\* Month-to-Month, One Year or Two Year and a churn label 0 or 1 stay
C28_TargetSchemaPreserved ==
    result.op = "load_data" =>
        \A i \in DOMAIN df :
            LET r == Get(result.value)[i] IN
            /\ df[i].ContractType[2] \in TargetContracts => r.ContractType = df[i].ContractType
            /\ df[i].Churn[1] = "number" => r.Churn = df[i].Churn[2]

\* what the transform does to the two columns: the Telco spellings become
\* the target spellings and Yes becomes 1; every other contract type becomes
\* missing and every other churn label 0
IngestOfTelcoValues ==
    result.op = "load_data" =>
        \A i \in DOMAIN df :
            LET r == Get(result.value)[i] IN
            /\ r.ContractType = (IF df[i].ContractType = Text("Month-to-month")
                                 THEN Text("Month-to-Month")
                                 ELSE IF df[i].ContractType = Text("Two year")
                                 THEN Text("Two Year")
                                 ELSE Missing)
            /\ r.Churn = (IF df[i].Churn = Text("Yes") THEN 1 ELSE 0)

\* a churned record of the target schema has come out as not churned and
\* without contract type
TargetSchemaLost ==
    /\ result.op = "load_data"
    /\ df[1].Churn = Number(1)
    /\ Get(result.value)[1].Churn = 0
    /\ Get(result.value)[1].ContractType = Missing

-----------------------------------------------------------------------------
(* Claims about the segment ids *)

\* segmentation runs alone, one after another, on one dataset
NextClusters == Segmentation

SpecClusters == InitDataset /\ [][NextClusters]_vars

SegmentIds(d) == {Column(d, "Segment")[i] : i \in 1..NRows(d)}

SegmentIdsKeptByFailedRun ==
    /\ result.op = "render_segmentation_page"
    /\ result.status = "error"
    /\ HasColumn(df, "Segment")

-----------------------------------------------------------------------------
(* Claims about the predictor after failing train calls *)

ImportancesImplyFitted ==
    ~IsNone(cp.feature_importance) => ~IsNone(cp.model)

\* predict has returned on a predictor on which get_top_features raises
PredictWithoutImportances ==
    /\ result.op = "predict"
    /\ result.status = "ok"
    /\ TopFeaturesResult(cp, 1).status = "error"

FailedTrainKeepsImportances ==
    [][(result'.op = "train" /\ result'.status = "error")
         => /\ cp'.feature_importance = cp.feature_importance
            /\ result'.raised # "cross_val_score" => cp' = cp]_vars

\* stored importances of a classifier fitted on another number of columns
\* than the one now fitted
ImportancesOfAnotherFit ==
    /\ result.op = "train"
    /\ result.status = "error"
    /\ ~IsNone(cp.feature_importance)
    /\ Len(Get(cp.feature_importance)) # Get(cp.model).n_features

-----------------------------------------------------------------------------
(* Claims about prepare_model_data and the shared dataset *)

\* C26: the feature columns that prepare_model_data returns are those it
\* returns for the initial dataset, whatever calculator calls and
\* segmentation runs were made on the dataset before
C26_ColumnsIndependent ==
    (result.op = "prepare_model_data" /\ result.status = "ok") =>
        Get(result.value).columns = FeatureColumns(df0, result.args.target_col)

\* the feature columns are those of the initial dataset followed by the
\* derived columns added to the dataset so far, in the order of their adding
ColumnsFollowDataset ==
    (result.op = "prepare_model_data" /\ result.status = "ok") =>
        LET v == Get(result.value) IN
        /\ v.columns = FeatureColumns(df0, result.args.target_col)
                         \o SelectSeq(df.columns, LAMBDA c : c \in DerivedColumns)
        /\ \A c \in DerivedColumns : HasColumn(df, c) <=> c \in Range(v.columns)

\* a feature matrix with the columns that calculate_customer_metrics added
PreparedWithMetrics ==
    /\ result.op = "prepare_model_data"
    /\ result.status = "ok"
    /\ {"CLV", "ARPU", "ServiceUsageScore"} \subseteq Range(Get(result.value).columns)
    /\ ~HasColumn(df0, "CLV")

\* C27: a prepare_model_data call, returning or raising, leaves the dataset
\* of the DataProcessor as it was: the same columns in the same order and the
\* same value in every cell
C27_SourceUnchanged ==
    [][result'.op = "prepare_model_data" => df' = df]_vars

\* after a second call the dataset is the initial one, with the strings that
\* the returned matrix has as codes
C27_Witness ==
    /\ result.op = "prepare_model_data"
    /\ result.status = "ok"
    /\ ~IsNone(recsSeen)
    /\ Get(recsSeen).op = "prepare_model_data"
    /\ df = df0
    /\ NRows(df) = 2
    /\ df.rows[1].ContractType = "Two Year"
    /\ df.rows[2].ContractType = "Month-to-Month"
    /\ Get(result.value).X[1].ContractType # Get(result.value).X[2].ContractType
    /\ HasColumn(df, "CustomerID")
    /\ "CustomerID" \notin Range(Get(result.value).columns)

-----------------------------------------------------------------------------
(* The prediction page: a render with the button of the interactive *)
(* prediction pressed                                                *)

\* the columns of test_customer, in the order of the dictionary
FormColumns ==
    <<"Tenure", "MonthlyCharges", "SatisfactionScore", "ContractType", "InternetService",
      "PaymentMethod", "StreamingTV", "StreamingMovies", "PhoneService">>

\* a column that keeps its name, and the indicator column column_value
ColumnName(c) == [column |-> c, value |-> "none"]
DummyName(c, v) == [column |-> c, value |-> v]

\* pd.get_dummies of the one-row frame: the numbers are kept, in front, and
\* every column of strings is replaced by the indicator column of its value
get_dummies(tc) ==
    LET kept == SelectSeq(FormColumns, LAMBDA c : Dtype(c) # "object")
        coded == SelectSeq(FormColumns, LAMBDA c : Dtype(c) = "object")
        names == [i \in DOMAIN kept |-> ColumnName(kept[i])]
                   \o [i \in DOMAIN coded |-> DummyName(coded[i], tc[coded[i]])]
    IN [columns |-> names,
        cells |-> [n \in Range(names) |-> IF n.value = "none" THEN tc[n.column] ELSE 1]]

\* DataFrame.reindex(columns=..., fill_value=...): the columns asked for, in
\* their order; a column the frame does not have is filled
Reindex(frame, columns, fill) ==
    [columns |-> columns,
     row |-> [c \in Range(columns) |->
                IF ColumnName(c) \in Range(frame.columns)
                THEN frame.cells[ColumnName(c)] ELSE fill]]

ClassCount(d, c) == Cardinality({i \in 1..NRows(d) : d.rows[i].Churn = c})

\* render_prediction_page with the selection sel of the widgets and the
\* button pressed: prepare_model_data, train of a new predictor, then the
\* row of the selection is given to predict
PredictionPageResult(p, d, sel) ==
    LET op == "render_prediction_page"
        n0 == ClassCount(d, 0)
        n1 == ClassCount(d, 1)
    IN IF PrepareRaises(p, d, "Churn") # "none"
       THEN Raise(op, sel, PrepareRaises(p, d, "Churn"))
       ELSE IF SplitRaises(n0, n1) THEN Raise(op, sel, "train_test_split")
       ELSE IF CvRaises(n0, n1) THEN Raise(op, sel, "cross_val_score")
       ELSE Return(op, sel, Reindex(get_dummies(sel), FeatureColumns(d, "Churn"), 0))

render_prediction_page(sel) ==
    /\ result' = PredictionPageResult(dp, df, sel)
    /\ dp' = [label_encoders |-> EncodersAfterLoop(dp.label_encoders, df),
              scaler |-> IF PrepareRaises(dp, df, "Churn") \in {"none", "scaler"}
                         THEN ScalerAfter(dp, df, "Churn")
                         ELSE dp.scaler]
    /\ recsSeen' \in Remember(recsSeen, result')
    /\ UNCHANGED <<df, cp, df0, trainCalled, lastImportance>>

\* the sliders and the select boxes: the options of the contract type are
\* the values of the dataset
Selections(d) ==
    {[Tenure |-> t, MonthlyCharges |-> 70, SatisfactionScore |-> 35,
      ContractType |-> ct, InternetService |-> "DSL", PaymentMethod |-> "Mailed check",
      StreamingTV |-> tv, StreamingMovies |-> "Yes", PhoneService |-> ph] :
        t \in {0, 24}, ct \in Range(Column(d, "ContractType")),
        tv \in {"Yes", "No"}, ph \in {"Yes", "No"}}

PredictionPage == \E sel \in Selections(df) : render_prediction_page(sel)

\* datasets of n records that stayed and n that churned
InferenceRecords(a, b, n) == [i \in 1..(2 * n) |-> IF i <= n THEN a ELSE b]

InferenceDatasets ==
    {Dataset(InferenceRecords([DefaultRow EXCEPT !.ContractType = cta, !.Churn = 0],
                              [DefaultRow EXCEPT !.ContractType = ctb, !.Churn = 1], n), {}) :
        cta \in {"Month-to-Month", "Two Year"}, ctb \in {"Month-to-Month", "Two Year"},
        n \in {1, MaxInferenceClass}}

InitInference == InitWith(InferenceDatasets)

NextInference == PredictionPage

SpecInference == InitInference /\ [][NextInference]_vars

FormCategorical ==
    {"ContractType", "InternetService", "PaymentMethod", "StreamingTV",
     "StreamingMovies", "PhoneService"}

\* C29: the row given to predict has the columns of the training X in their
\* order; each selected string is in the row as the code its column's
\* encoder gives it; and two requests that differ in a selected string give
\* different rows
C29_SelectionReachesModel ==
    (result.op = "render_prediction_page" /\ result.status = "ok") =>
        LET v == Get(result.value) IN
        /\ v.columns = FeatureColumns(df, "Churn")
        /\ \A c \in FormCategorical :
              v.row[c] = EncoderCode(dp.label_encoders[c], result.args[c])
        /\ \A c \in FormCategorical :
              (/\ ~IsNone(recsSeen)
               /\ Get(recsSeen).status = "ok"
               /\ Get(recsSeen).args[c] # result.args[c])
                 => Get(Get(recsSeen).value).row # v.row

\* what the row is: the columns of the training X in their order, the three
\* numbers as entered and 0 in every other column
InferenceRowOfNumbers ==
    (result.op = "render_prediction_page" /\ result.status = "ok") =>
        LET v == Get(result.value) IN
        /\ v.columns = FeatureColumns(df, "Churn")
        /\ DOMAIN v.row = Range(FeatureColumns(df, "Churn"))
        /\ \A c \in DOMAIN v.row :
              v.row[c] = IF c \in {"Tenure", "MonthlyCharges", "SatisfactionScore"}
                         THEN result.args[c] ELSE 0

\* two requests with different contract types have given the same row
SelectionLost ==
    /\ result.op = "render_prediction_page"
    /\ result.status = "ok"
    /\ ~IsNone(recsSeen)
    /\ Get(recsSeen).status = "ok"
    /\ Get(recsSeen).args.ContractType # result.args.ContractType
    /\ Get(Get(recsSeen).value).row = Get(result.value).row

-----------------------------------------------------------------------------
(* Claim about the customer id of get_personalized_recommendations *)

CustomerIds(d) == {d.rows[i].CustomerID : i \in 1..NRows(d)}

\* C30: get_personalized_recommendations leaves the dataset as it was; with
\* a customer id that no record has it ends in an error and returns no list;
\* with an id of the dataset it returns a list of at most 4 recommendations
C30_UnknownCustomerFails ==
    [][result'.op = "get_personalized_recommendations" =>
         /\ df' = df
         /\ IF result'.args.customer_id \in CustomerIds(df)
            THEN /\ result'.status = "ok"
                 /\ Len(Get(result'.value)) <= 4
            ELSE /\ result'.status = "error"
                 /\ IsNone(result'.value)]_vars

\* a call with an id that no record has ended in an error, after a call
\* that returned four recommendations and on a dataset with a customer for
\* whom the list is empty
C30_Witness ==
    /\ result.op = "get_personalized_recommendations"
    /\ result.status = "error"
    /\ result.args.customer_id \notin CustomerIds(df)
    /\ ~IsNone(recsSeen)
    /\ Get(recsSeen).status = "ok"
    /\ Len(Get(Get(recsSeen).value)) = 4
    /\ \E i \in 1..NRows(df) : PersonalizedResult(df, i).value = Some(<< >>)

=============================================================================
